---- MODULE Spec2Model ----
(***************************************************************************)
(* Model of flask_cloudant/__init__.py: the FlaskCloudant facade           *)
(* (init_app, get, put, delete) and FlaskCloudantDocument (content,        *)
(* exists, save, delete, refresh) over the python-cloudant client.         *)
(*                                                                         *)
(* The wrapped client library is modelled by what its calls do:            *)
(*   CouchDB.connect / disconnect   open / close the shared session        *)
(*   CLIENT[name]                   KeyError when the database is absent;  *)
(*                                  TypeError for the name None, which the *)
(*                                  URL quoting of the request rejects     *)
(*   Document.exists                False without an _id, else HEAD        *)
(*   Document.fetch                 GET; clears and refills the local dict *)
(*   Document.create                POST of the local dict without _rev;   *)
(*                                  stores _id and _rev of the response    *)
(*   Document.delete                needs a local _rev; DELETE ?rev=...;   *)
(*                                  clears the local dict but keeps _id    *)
(*   Document.field_set             value None removes the field           *)
(* Failed HTTP requests raise requests' HTTPError (raise_for_status).      *)
(*                                                                         *)
(* Scope: one server with one database, reachable and accepting the        *)
(* credentials; store requests succeed or fail by the state of the store,  *)
(* whatever the state of the session; a sequential caller that keeps at    *)
(* most one document handle at a time; content keys are ordinary field     *)
(* names (not the store-managed _id/_rev) and values are JSON scalars.     *)
(***************************************************************************)
EXTENDS Integers, Sequences, FiniteSets, TLC

VARIABLES client, db, conn, store, nextRev, handle, last

vars == <<client, db, conn, store, nextRev, handle, last>>

----------------------------------------------------------------------------
(* Bounds *)

MaxRev == 2          \* revisions the store hands out in one behaviour

----------------------------------------------------------------------------
(* Values *)

PyNone == "None"     \* Python's None
Absent == "absent"   \* key not present in a dict

Ids == {"x", "y"}                    \* document ids
Keys == {"a", "b"}                   \* field names
PyVals == {"int:1"}                  \* non-None Python field values
ServerDbs == {"appdb"}               \* databases present on the server
DbNames == {"appdb", "nodb", PyNone} \* values of COUCH_DB (None: not set)

\* json.dumps / json.loads on field values
Dumps(v) == CASE v = "int:1" -> "1" [] v = "int:2" -> "2" [] OTHER -> "null"
Loads(j) == CASE j = "1" -> "int:1" [] j = "2" -> "int:2" [] OTHER -> PyNone

NoFields == [k \in Keys |-> Absent]

\* a Python dict given as content: its items in iteration order; the
\* two-item dicts are taken with key "a" first, the other order being the
\* same dict with the names of the keys exchanged
Items == Keys \X (PyVals \cup {PyNone})
DictItems ==
    {<<>>} \cup {<<i>> : i \in Items}
           \cup {c \in {<<i, j>> : i \in Items, j \in Items} :
                    c[1][1] = "a" /\ c[2][1] = "b"}
Dict(items) == [type |-> "dict", items |-> items]
NotADict == [type |-> "other", items |-> <<>>]  \* a str, a list, a number
NoContent == [type |-> "NoneType", items |-> <<>>]  \* content=None
DictContents == {Dict(i) : i \in DictItems}
Contents == DictContents \cup {NotADict, NoContent}

\* the dict as a mapping (iteration order forgotten)
RECURSIVE ItemsMap(_)
ItemsMap(items) ==
    IF items = <<>> THEN NoFields
    ELSE [ItemsMap(Tail(items)) EXCEPT ![Head(items)[1]] = Head(items)[2]]
AsMap(c) == ItemsMap(c.items)

\* cloudant.document.Document(self._db, document_id): a local dict
NewDocument(id) == [id |-> id, rev |-> 0, fields |-> NoFields]
NoHandle == [live |-> FALSE, doc |-> NewDocument(PyNone)]
Handle(d) == [live |-> TRUE, doc |-> d]

NotStored == [rev |-> 0, fields |-> NoFields]

\* the part of the state the operations thread through
World == [conn |-> conn, store |-> store, nextRev |-> nextRev, ev |-> <<>>]

Ok(w, d) == [w |-> w, d |-> d, err |-> "none", status |-> 0, ctx |-> PyNone]
Raise(w, d, err, status, ctx) ==
    [w |-> w, d |-> d, err |-> err, status |-> status, ctx |-> ctx]
Access(w, what) == [w EXCEPT !.ev = Append(@, what)]

----------------------------------------------------------------------------
(* FlaskCloudant.__connect__ / __disconnect__ *)

Connect(w) == [w EXCEPT !.conn = "Connected", !.ev = Append(@, "connect")]
Disconnect(w) == [w EXCEPT !.conn = "Disconnected",
                           !.ev = Append(@, "disconnect")]

----------------------------------------------------------------------------
(* cloudant.document.Document *)

Stored(st, id) == id # PyNone /\ st[id].rev # 0

doc_exists(w, d) == Stored(w.store, d.id)

doc_fetch(w, d) ==
    LET w1 == Access(w, "fetch") IN
    IF d.id = PyNone THEN Raise(w, d, "CloudantDocumentException", 101, PyNone)
    ELSE IF ~Stored(w.store, d.id) THEN Raise(w1, d, "HTTPError", 404, d.id)
    ELSE Ok(w1, [id |-> d.id, rev |-> w.store[d.id].rev,
                 fields |-> [k \in Keys |->
                    IF w.store[d.id].fields[k] = Absent THEN Absent
                    ELSE Loads(w.store[d.id].fields[k])]])

\* gen: the id the server assigns when the body carries none
doc_create(w, d, gen) ==
    LET w1 == Access(w, "create")
        id == IF d.id = PyNone THEN gen ELSE d.id
        body == [k \in Keys |-> IF d.fields[k] = Absent THEN Absent
                                ELSE Dumps(d.fields[k])]
    IN IF Stored(w.store, id) THEN Raise(w1, d, "HTTPError", 409, id)
       ELSE Ok([w1 EXCEPT !.store[id] = [rev |-> w.nextRev, fields |-> body],
                          !.nextRev = @ + 1],
               [d EXCEPT !.id = id, !.rev = w.nextRev])

doc_delete(w, d) ==
    LET w1 == Access(w, "delete") IN
    IF d.rev = 0 THEN Raise(w, d, "CloudantDocumentException", 103, PyNone)
    ELSE IF ~Stored(w.store, d.id) THEN Raise(w1, d, "HTTPError", 404, d.id)
    ELSE IF w.store[d.id].rev # d.rev THEN Raise(w1, d, "HTTPError", 409, d.id)
    ELSE Ok([w1 EXCEPT !.store[d.id] = NotStored], NewDocument(d.id))

field_set(d, k, v) ==
    IF v = PyNone
    THEN IF d.fields[k] = Absent THEN Raise(<<>>, d, "KeyError", 0, k)
         ELSE Ok(<<>>, [d EXCEPT !.fields[k] = Absent])
    ELSE Ok(<<>>, [d EXCEPT !.fields[k] = v])

----------------------------------------------------------------------------
(* FlaskCloudantDocument *)

\* __init__ without the existence test: fetches whatever the id
FCD_init_Unchecked(w, d, exists) ==
    IF exists THEN doc_fetch(Access(w, "exists"), d) ELSE Ok(w, d)

\* __init__(cloudant_doc, exists)
FCD_init(w, d, exists) ==
    IF exists
    THEN LET w1 == Access(w, "exists") IN
         IF doc_exists(w1, d) THEN doc_fetch(w1, d)
         ELSE Raise(w1, d, "FlaskCloudantException", 404, d.id)
    ELSE Ok(w, d)

FCD_refresh(w, d) ==
    LET f == doc_fetch(Connect(w), d) IN
    IF f.err # "none" THEN f ELSE Ok(Disconnect(f.w), f.d)

\* the loop of content(): field_set for each item, in iteration order
RECURSIVE SetItems(_, _)
SetItems(d, items) ==
    IF items = <<>> THEN Ok(<<>>, d)
    ELSE LET r == field_set(d, Head(items)[1], Head(items)[2]) IN
         IF r.err # "none" THEN r ELSE SetItems(r.d, Tail(items))

\* content() whose set mode checks the type but never calls field_set
FCD_content_SetsNothing(w, d, content) ==
    IF content.type = "NoneType" THEN FCD_refresh(w, d)
    ELSE IF content.type # "dict"
    THEN Raise(w, d, "AssertionError", 0, PyNone)
    ELSE Ok(w, d)

\* content() whose get mode makes the requests of refresh() but returns the
\* dict the handle had cached
FCD_content_Cached(w, d, content) ==
    IF content.type = "NoneType"
    THEN LET f == FCD_refresh(w, d) IN
         IF f.err # "none" THEN f ELSE Ok(f.w, d)
    ELSE IF content.type # "dict"
    THEN Raise(w, d, "AssertionError", 0, PyNone)
    ELSE LET r == SetItems(d, content.items) IN
         Raise(w, r.d, r.err, r.status, r.ctx)

\* content(content=None); in get mode the value returned is dict(r.d)
FCD_content(w, d, content) ==
    IF content.type = "NoneType" THEN FCD_refresh(w, d)
    ELSE IF content.type # "dict"
    THEN Raise(w, d, "AssertionError", 0, PyNone)
    ELSE LET r == SetItems(d, content.items) IN
         Raise(w, r.d, r.err, r.status, r.ctx)

\* line 146: dict(self.document) is a new dict, so an assignment to the
\* returned mapping does not reach self.document
ReturnedIsCopy == TRUE

FCD_exists(w, d) == Disconnect(Access(Connect(w), "exists"))

\* exists() that answers from the revision the handle has cached
FCD_exists_value_Cached(w, d) == d.rev # 0

\* line 154: the value exists() returns
FCD_exists_value(w, d) == doc_exists(w, d)

FCD_save(w, d) == doc_create(w, d, d.id)

FCD_delete(w, d) == doc_delete(w, d)

----------------------------------------------------------------------------
(* FlaskCloudant *)

Unset == "unset"     \* the facade has no _db attribute yet

\* init_app after CLIENT was replaced by a new, disconnected client;
\* r.ctx of a success is unused, the caller assigns _db. No except clause
\* of lines 44-50 catches the TypeError of CLIENT[None].
init_app(w, couch_db) ==
    LET w0 == Connect([w EXCEPT !.conn = "Disconnected"])
        w1 == Access(w0, "database")
    IN IF couch_db = PyNone
       THEN Raise(w0, NewDocument(PyNone), "TypeError", 0, PyNone)
       ELSE IF couch_db \in ServerDbs
       THEN Ok(Disconnect(w1), NewDocument(PyNone))
       ELSE Raise(w1, NewDocument(PyNone), "FlaskCloudantException", 400,
                  couch_db)

\* get that returns the handle without disconnecting
FacadeGet_StaysConnected(w, cl, dbv, document_id) ==
    LET d == NewDocument(document_id) IN
    IF cl = PyNone THEN Raise(w, d, "AttributeError", 0, PyNone)
    ELSE IF dbv = Unset THEN Raise(Connect(w), d, "AttributeError", 0, PyNone)
    ELSE FCD_init(Connect(w), d, TRUE)

FacadeGet(w, cl, dbv, document_id) ==
    LET d == NewDocument(document_id) IN
    IF cl = PyNone THEN Raise(w, d, "AttributeError", 0, PyNone)
    ELSE IF dbv = Unset THEN Raise(Connect(w), d, "AttributeError", 0, PyNone)
    ELSE LET r == FCD_init(Connect(w), d, TRUE) IN
         IF r.err # "none" THEN r ELSE Ok(Disconnect(r.w), r.d)

\* put without the already-exists test: only override removes
PutCheck_NoExistsError(w, d, override) ==
    LET w2 == Access(Access(w, "exists"), "exists") IN
    IF doc_exists(w2, d) /\ override
    THEN LET f == doc_fetch(w2, d) IN
         IF f.err # "none" THEN f ELSE doc_delete(f.w, f.d)
    ELSE Ok(w2, d)

\* put whose override fetches the existing document but does not delete it
PutCheck_OverrideKeeps(w, d, override) ==
    LET w1 == Access(w, "exists") IN
    IF doc_exists(w1, d) /\ ~override
    THEN Raise(w1, d, "FlaskCloudantException", 405, d.id)
    ELSE LET w2 == Access(w1, "exists") IN
         IF doc_exists(w2, d) /\ override THEN doc_fetch(w2, d)
         ELSE Ok(w2, d)

\* put that removes the stored document before it tests override
PutCheck_RemovesThenFails(w, d, override) ==
    LET w1 == Access(w, "exists") IN
    IF doc_exists(w1, d)
    THEN LET f == doc_fetch(Access(w1, "exists"), d)
             x == IF f.err # "none" THEN f ELSE doc_delete(f.w, f.d)
         IN IF x.err = "none" /\ ~override
            THEN Raise(x.w, d, "FlaskCloudantException", 405, d.id)
            ELSE x
    ELSE Ok(Access(w1, "exists"), d)

\* lines 79-83: the existence check and the removal under override
PutCheck(w, d, override) ==
    LET w1 == Access(w, "exists") IN
    IF doc_exists(w1, d) /\ ~override
    THEN Raise(w1, d, "FlaskCloudantException", 405, d.id)
    ELSE LET w2 == Access(w1, "exists") IN
         IF doc_exists(w2, d) /\ override
         THEN LET f == doc_fetch(w2, d) IN
              IF f.err # "none" THEN f ELSE doc_delete(f.w, f.d)
         ELSE Ok(w2, d)

\* put that saves the document but returns the handle as it was before the
\* save, without the id and revision the store assigned
PutStore_ReturnsUnsaved(w, d, content, gen) ==
    LET c == FCD_content(w, d, content) IN
    IF c.err = "AssertionError"
    THEN Raise(c.w, c.d, "FlaskCloudantException", 700, "Content")
    ELSE IF c.err # "none" THEN c
    ELSE LET s == doc_create(c.w, c.d, gen) IN
         IF s.err # "none" THEN s ELSE Ok(Disconnect(s.w), c.d)

\* lines 85-93: content, save, disconnect
PutStore(w, d, content, gen) ==
    LET c == FCD_content(w, d, content) IN
    IF c.err = "AssertionError"
    THEN Raise(c.w, c.d, "FlaskCloudantException", 700, "Content")
    ELSE IF c.err # "none" THEN c
    ELSE LET s == doc_create(c.w, c.d, gen) IN
         IF s.err # "none" THEN s ELSE Ok(Disconnect(s.w), s.d)

FacadePut(w, cl, dbv, content, document_id, override, gen) ==
    LET d == NewDocument(document_id) IN
    IF cl = PyNone THEN Raise(w, d, "AttributeError", 0, PyNone)
    ELSE IF dbv = Unset THEN Raise(Connect(w), d, "AttributeError", 0, PyNone)
    ELSE LET p == PutCheck(Connect(w), d, override) IN
         IF p.err # "none" THEN p ELSE PutStore(p.w, p.d, content, gen)

\* delete that gets the document and never calls doc.delete()
FacadeDelete_KeepsDocument(w, cl, dbv, document_id) ==
    LET g == FacadeGet(w, cl, dbv, document_id) IN
    IF g.err # "none" THEN g ELSE Ok(Disconnect(Connect(g.w)), g.d)

\* delete that removes the document without connecting again after get
FacadeDelete_NoReconnect(w, cl, dbv, document_id) ==
    LET g == FacadeGet(w, cl, dbv, document_id) IN
    IF g.err # "none" THEN g
    ELSE LET x == FCD_delete(g.w, g.d) IN
         IF x.err # "none" THEN x ELSE Ok(Disconnect(x.w), x.d)

FacadeDelete(w, cl, dbv, document_id) ==
    LET g == FacadeGet(w, cl, dbv, document_id) IN
    IF g.err # "none" THEN g
    ELSE LET x == FCD_delete(Connect(g.w), g.d) IN
         IF x.err # "none" THEN x ELSE Ok(Disconnect(x.w), x.d)

----------------------------------------------------------------------------
(* The caller: one public operation per step *)

FacadeOps == {"init_app", "get", "put", "delete"}
DocOps == {"content", "set_content", "exists", "save", "doc_delete", "refresh"}

Unrecorded == "unrecorded"

\* what the caller observes of the operation that ran last: its arguments,
\* whether a document was stored under id when it started (before), the
\* state of the shared connection when a get, put or delete that returned
\* started (started), the mapping a put that returned was given (cmap), the
\* exception raised (err, status,
\* ctx) or the value returned (ret, found), and the connects, disconnects
\* and store accesses it made (ev)
Outcome(op, id, override, content, r, ret, found) ==
    [op |-> op, id |-> id, override |-> override, ctype |-> content.type,
     before |-> op # "init_app" /\ Stored(store, id),
     started |-> IF op \in {"get", "put", "delete"} /\ r.err = "none"
                 THEN conn ELSE Unrecorded,
     cmap |-> IF op = "put" /\ r.err = "none" THEN AsMap(content)
              ELSE NoFields,
     err |-> r.err, status |-> r.status, ctx |-> r.ctx,
     ret |-> ret, found |-> found, ev |-> r.w.ev]

NoOutcome ==
    [op |-> "none", id |-> PyNone, override |-> FALSE, ctype |-> "NoneType",
     before |-> FALSE, started |-> Unrecorded,
     cmap |-> NoFields,
     err |-> "none", status |-> 0, ctx |-> PyNone,
     ret |-> NewDocument(PyNone), found |-> FALSE, ev |-> <<>>]

NoDoc == NewDocument(PyNone)

Init ==
    /\ client = PyNone
    /\ db = Unset
    /\ conn = "Disconnected"
    /\ store = [i \in Ids |-> NotStored]
    /\ nextRev = 1
    /\ handle = NoHandle
    /\ last = NoOutcome

Commit(r) ==
    /\ conn' = r.w.conn
    /\ store' = r.w.store
    /\ nextRev' = r.w.nextRev

InitApp(couch_db) ==
    \E r \in {init_app(World, couch_db)} :
    /\ client' = "CouchDB"
    /\ db' = IF r.err = "none" THEN couch_db ELSE db
    /\ Commit(r)
    /\ last' = Outcome("init_app", couch_db, FALSE, NoContent, r, NoDoc, FALSE)
    /\ UNCHANGED handle

Get(document_id) ==
    \E r \in {FacadeGet(World, client, db, document_id)} :
    /\ Commit(r)
    /\ last' = Outcome("get", document_id, FALSE, NoContent, r,
                       IF r.err = "none" THEN r.d ELSE NoDoc, FALSE)
    /\ UNCHANGED <<client, db, handle>>

Put(content, document_id, override, gen) ==
    /\ IF document_id = PyNone THEN ~Stored(store, gen) ELSE gen = document_id
    /\ \E r \in {FacadePut(World, client, db, content, document_id, override,
                           gen)} :
        /\ r.w.nextRev <= MaxRev + 1
        /\ Commit(r)
        /\ last' = Outcome("put", document_id, override, content, r,
                           IF r.err = "none" THEN r.d ELSE NoDoc, FALSE)
    /\ UNCHANGED <<client, db, handle>>

\* the caller keeps the handle that the get or put before returned
\* (doc = db.get(...)); until then it holds the handle it kept earlier
Keep ==
    /\ last.op \in {"get", "put"} /\ last.err = "none"
    /\ handle' = Handle(last.ret)
    /\ UNCHANGED <<client, db, conn, store, nextRev, last>>

Delete(document_id) ==
    \E r \in {FacadeDelete(World, client, db, document_id)} :
    /\ Commit(r)
    /\ last' = Outcome("delete", document_id, FALSE, NoContent, r, NoDoc, FALSE)
    /\ UNCHANGED <<client, db, handle>>

\* a document operation on the handle the caller keeps
DocStep(op, content, r, ret, found) ==
    /\ Commit(r)
    /\ handle' = [handle EXCEPT !.doc = r.d]
    /\ last' = Outcome(op, handle.doc.id, FALSE, content, r, ret, found)
    /\ UNCHANGED <<client, db>>

DocContent ==
    /\ handle.live
    /\ \E r \in {FCD_content(World, handle.doc, NoContent)} :
        DocStep("content", NoContent, r,
                IF r.err = "none" THEN r.d ELSE NoDoc, FALSE)

DocSetContent(content) ==
    /\ handle.live
    /\ \E r \in {FCD_content(World, handle.doc, content)} :
        DocStep("set_content", content, r, NoDoc, FALSE)

\* the caller assigns returned[k] = v on the mapping content() returned
SetReturned(k, v) ==
    /\ last.op = "content" /\ last.err = "none"
    /\ last.ret.fields[k] # v
    /\ last' = [last EXCEPT !.op = "set_returned", !.ret.fields[k] = v]
    /\ handle' = IF ReturnedIsCopy THEN handle
                 ELSE [handle EXCEPT !.doc.fields[k] = v]
    /\ UNCHANGED <<client, db, conn, store, nextRev>>

DocExists ==
    /\ handle.live
    /\ \E w \in {FCD_exists(World, handle.doc)} :
        DocStep("exists", NoContent, Ok(w, handle.doc), NoDoc,
                FCD_exists_value(w, handle.doc))

DocSave ==
    /\ handle.live
    /\ \E r \in {FCD_save(World, handle.doc)} :
        /\ r.w.nextRev <= MaxRev + 1
        /\ DocStep("save", NoContent, r, NoDoc, FALSE)

DocDelete ==
    /\ handle.live
    /\ \E r \in {FCD_delete(World, handle.doc)} :
        DocStep("doc_delete", NoContent, r, NoDoc, FALSE)

DocRefresh ==
    /\ handle.live
    /\ \E r \in {FCD_refresh(World, handle.doc)} :
        DocStep("refresh", NoContent, r, NoDoc, FALSE)

Next ==
    \/ \E n \in DbNames : InitApp(n)
    \/ \E i \in Ids : Get(i)
    \/ \E c \in Contents, i \in Ids \cup {PyNone}, o \in BOOLEAN, g \in Ids :
          Put(c, i, o, g)
    \/ Keep
    \/ \E i \in Ids : Delete(i)
    \/ DocContent
    \/ \E k \in Keys, v \in PyVals : SetReturned(k, v)
    \/ \E c \in DictContents \cup {NotADict} : DocSetContent(c)
    \/ DocExists
    \/ DocSave
    \/ DocDelete
    \/ DocRefresh

Spec == Init /\ [][Next]_vars

----------------------------------------------------------------------------
(* Properties *)

Initialised == db # Unset
Raised == last.err # "none"
DomainError == last.err = "FlaskCloudantException"

\* what get(document_id).content() returns in the current state: the
\* outcome of the get, or of content() on the handle it returned
ReadBack(document_id) ==
    LET g == FacadeGet(World, client, db, document_id) IN
    IF g.err # "none" THEN g ELSE FCD_content(g.w, g.d, NoContent)

\* get(document_id).content() returns exactly the fields of the mapping m,
\* the id and the revision stored under it
ReadsBack(document_id, m) ==
    \E r \in {ReadBack(document_id)} :
        /\ r.err = "none"
        /\ r.d.fields = m
        /\ r.d.id = document_id
        /\ r.d.rev = store[document_id].rev /\ r.d.rev # 0

\* C1: whenever a public operation has returned or raised, the shared
\* connection is Disconnected.
C1_DisconnectedAfterEveryOperation ==
    last.op # "none" => conn = "Disconnected"

\* C2: whenever get, put or delete raises, the stored documents (ids and
\* content) are exactly what they were before the call.
C2_FailedOperationLeavesStore ==
    [][(last'.op \in {"get", "put", "delete"} /\ last'.err # "none")
        => store' = store]_vars

\* C3: with a document stored under X, put(content2, X) without override
\* fails with the already-exists error, status 405, carrying X, for every
\* content2 (on an initialised facade).
C3_PutExistingFails405 ==
    (/\ last.op = "put" /\ ~last.override /\ last.id # PyNone
     /\ Initialised /\ last.before)
    => (DomainError /\ last.status = 405 /\ last.ctx = last.id)

C3_Witness ==
    /\ last.op = "put" /\ ~last.override /\ last.before /\ Initialised
    /\ DomainError /\ last.status = 405 /\ last.ctx = last.id

\* C4: with a document stored under X, put(c2, X, override=True) with a
\* mapping c2 succeeds and get(X).content() then returns the fields of c2
\* only, plus the store-managed id and revision.
C4_OverrideReplaces ==
    (/\ last.op = "put" /\ last.override /\ last.ctype = "dict"
     /\ last.id # PyNone /\ Initialised /\ last.before)
    => (last.err = "none" /\ ReadsBack(last.id, last.cmap))

C6_AbsentIdFails404 ==
    (last.op \in {"get", "delete"} /\ Initialised /\ ~last.before)
    => (DomainError /\ last.status = 404 /\ last.ctx = last.id)

C6_Witness ==
    /\ last.op = "delete" /\ Initialised /\ ~last.before
    /\ DomainError /\ last.status = 404 /\ last.ctx = last.id

\* get(id) in the current state fails with the not-found error
GetFails404(i) ==
    \E g \in {FacadeGet(World, client, db, i)} :
        g.err = "FlaskCloudantException" /\ g.status = 404 /\ g.ctx = i

\* C7 in two parts. In every state: while nothing is stored under id,
\* get(id) fails with the not-found error.
NotFoundWhileAbsent ==
    \A i \in Ids : (Initialised /\ ~Stored(store, i)) => GetFails404(i)

\* In every step: a successful delete(id) leaves nothing stored under id,
\* and nothing becomes stored under id except by an operation in restorers.
DeleteRemovesUntil(restorers) ==
    \A i \in Ids :
        /\ (last'.op = "delete" /\ last'.id = i /\ last'.err = "none")
            => ~Stored(store', i)
        /\ (~Stored(store, i) /\ Stored(store', i))
            => last'.op \in restorers

C8_NonMappingFails700 ==
    [][(last'.op = "set_content" /\ last'.ctype = "other")
        => (/\ last'.err = "FlaskCloudantException"
            /\ last'.status = 700
            /\ handle' = handle)]_vars

\* C9: every failure a facade or document operation surfaces is a domain
\* error carrying a status code, never a raw client error or another
\* exception type (stated for an initialised facade, where no failure is
\* due to a missing init_app).
C9_OnlyDomainErrors ==
    (Initialised /\ Raised) => (DomainError /\ last.status # 0)

\* the handle's cached revision is not the one stored under its id
Stale(h) ==
    /\ h.live /\ h.doc.rev # 0 /\ Stored(store, h.doc.id)
    /\ store[h.doc.id].rev # h.doc.rev

\* C10: delete() on a handle whose cached revision is stale fails with the
\* conflict domain error and does not remove the document stored now.
C10_StaleDeleteConflict ==
    [][(last'.op = "doc_delete" /\ Stale(handle))
        => (/\ last'.err = "FlaskCloudantException"
            /\ store' = store)]_vars

\* C11: init_app with a database name that does not exist on the server, or
\* with no name configured, fails with the database-not-found error, status
\* 400, carrying the name; with a database that exists it returns after
\* exactly one connect followed by one disconnect.
C11_InitAppDatabase ==
    last.op = "init_app" =>
        IF last.id \in ServerDbs
        THEN /\ last.err = "none"
             /\ last.ev = <<"connect", "database", "disconnect">>
        ELSE DomainError /\ last.status = 400 /\ last.ctx = last.id

\* C12: exists() on a document handle returns true exactly when a document
\* is stored under the handle's id at that moment, whatever the handle has
\* cached, and makes one connect, the existence check and one disconnect.
C12_ExistsReadsStore ==
    last.op = "exists" =>
        /\ last.err = "none"
        /\ last.found = Stored(store, last.id)
        /\ last.ev = <<"connect", "exists", "disconnect">>

\* exists() answered true on a handle whose cached revision was removed and
\* whose id was stored again by a later put
C12_Witness ==
    /\ last.op = "exists" /\ last.found /\ last.id = handle.doc.id
    /\ handle.doc.rev # 0 /\ handle.doc.rev # store[last.id].rev

\* the document stored under id as a fetch decodes it
StoredDocument(id) ==
    [id |-> id, rev |-> store[id].rev,
     fields |-> [k \in Keys |-> IF store[id].fields[k] = Absent THEN Absent
                                ELSE Loads(store[id].fields[k])]]

\* content() on a handle whose id is stored makes one fetch inside a
\* connect/disconnect pair and returns the stored document, id and revision
\* included, which is then also what the handle holds
ContentReadsStore ==
    (last.op = "content" /\ last.before) =>
        /\ last.err = "none"
        /\ last.ev = <<"connect", "fetch", "disconnect">>
        /\ last.ret = StoredDocument(last.id)
        /\ handle.doc = last.ret

\* an assignment to the mapping content() returned leaves the handle as it was
ReturnedMappingIsCopy ==
    (last.op = "content" /\ last'.op = "set_returned") => handle' = handle

PutWithoutId ==
    (/\ last'.op = "put" /\ last'.id = PyNone /\ last'.ctype = "dict"
     /\ last' # last)
    => /\ ~(last'.err = "FlaskCloudantException" /\ last'.status = 405)
       /\ last'.err = "none" =>
            /\ last'.ret.id \in Ids
            /\ ~Stored(store, last'.ret.id)
            /\ Stored(store', last'.ret.id)
            /\ store'[last'.ret.id].rev = last'.ret.rev
            /\ \A j \in Ids \ {last'.ret.id} : store'[j] = store[j]
       /\ last'.err # "none" => store' = store

\* C14: put(content) with no id and a mapping as content never fails with
\* the already-exists error, whatever is stored: the store assigns an id
\* different from every stored id, the returned handle carries that id, and
\* every document stored before is unchanged.
C14_PutWithoutIdNeverConflicts ==
    [][PutWithoutId]_vars

\* a put without id returned while another document was stored
C14_Witness ==
    /\ last.op = "put" /\ last.id = PyNone /\ last.err = "none"
    /\ last.ret.id \in Ids /\ store[last.ret.id].rev = last.ret.rev
    /\ \E j \in Ids \ {last.ret.id} :
          Stored(store, j) /\ store[j].rev < last.ret.rev

\* the events of ev up to and including the first occurrence of what
RECURSIVE UpTo(_, _)
UpTo(ev, what) ==
    IF ev = <<>> THEN <<>>
    ELSE IF Head(ev) = what THEN <<what>>
    ELSE <<Head(ev)>> \o UpTo(Tail(ev), what)

ReachedSave ==
    last.op = "put" /\ \E n \in DOMAIN last.ev : last.ev[n] = "create"

\* C15: whenever put reaches the save step for id X, nothing is stored under
\* X at that moment (the create is not refused as a conflict): either
\* nothing was stored under X when put checked, or override was requested
\* and the stored document was fetched and deleted before the save. No
\* document is created over an existing id without override.
C15_SaveOnlyOverAbsentId ==
    ReachedSave =>
        /\ ~(last.err = "HTTPError" /\ last.status = 409)
        /\ IF last.before
           THEN /\ last.override
                /\ UpTo(last.ev, "create") =
                     <<"connect", "exists", "exists", "fetch", "delete",
                       "create">>
           ELSE UpTo(last.ev, "create") =
                     <<"connect", "exists", "exists", "create">>
        /\ last.err = "none" =>
             /\ Stored(store, last.ret.id)
             /\ store[last.ret.id].rev = last.ret.rev
             /\ last.id # PyNone => last.ret.id = last.id

\* a put with override reached the save step for an id that was stored
C15_Witness ==
    /\ ReachedSave /\ last.before /\ last.override /\ last.err = "none"
    /\ store[last.id].rev = last.ret.rev

\* every store access of ev lies between a connect and the next disconnect
\* (open: a connect of ev is not yet followed by a disconnect)
RECURSIVE Bracketed(_, _)
Bracketed(ev, open) ==
    IF ev = <<>> THEN TRUE
    ELSE CASE Head(ev) = "connect" -> Bracketed(Tail(ev), TRUE)
           [] Head(ev) = "disconnect" -> Bracketed(Tail(ev), FALSE)
           [] OTHER -> open /\ Bracketed(Tail(ev), open)

\* C16: every access to the store made by init_app, get, put or delete (the
\* database lookup, existence checks, fetch, delete, create) is made after a
\* connect of that operation and before its next disconnect; a delete that
\* returns makes two connect/disconnect cycles, the removal in the second.
C16_AccessOnlyWhileConnected ==
    last.op \in FacadeOps =>
        /\ Bracketed(last.ev, FALSE)
        /\ (last.op = "delete" /\ last.err = "none") =>
              last.ev = <<"connect", "exists", "fetch", "disconnect",
                          "connect", "delete", "disconnect">>

\* a delete returned after removing a stored document
C16_Witness ==
    /\ last.op = "delete" /\ last.err = "none" /\ last.before
    /\ Len(last.ev) = 7 /\ last.ev[6] = "delete" /\ conn = "Disconnected"

\* C17: whenever get, put or delete returns normally, the shared connection
\* is Disconnected, whatever state it was in when the operation started: a
\* connection an earlier operation left Connected does not outlive the next
\* facade operation that succeeds.
C17_ReturnedOperationDisconnects ==
    (last.op \in {"get", "put", "delete"} /\ last.err = "none")
    => /\ conn = "Disconnected"
       /\ last.started \in {"Connected", "Disconnected"}

\* a get, put or delete that started on a connection left Connected has
\* returned
C17_Witness ==
    /\ last.op \in {"get", "put", "delete"} /\ last.err = "none"
    /\ last.started = "Connected" /\ conn = "Disconnected"

\* the operation that ran last was refused: a put without override because
\* its id is stored, or a get or delete because its id is not
Refused ==
    /\ DomainError /\ last.ctx = last.id
    /\ \/ last.op = "put" /\ ~last.override /\ last.status = 405
       \/ last.op \in {"get", "delete"} /\ last.status = 404

\* C18: a put without override that fails because the id already exists,
\* and a get or delete that fails because the id is absent, write nothing:
\* the document stored under that id (content and revision) and every other
\* stored document are the same before and after the failed call.
C18_RefusedOperationWritesNothing ==
    [][Refused' =>
        /\ store' = store /\ nextRev' = nextRev
        /\ \A n \in DOMAIN last'.ev : last'.ev[n] \notin {"delete", "create"}
        /\ (last'.op = "put") = Stored(store', last'.id)]_vars

\* a put without override was refused over a stored document with fields,
\* and a second document is stored
C18_Witness ==
    /\ Refused /\ last.op = "put" /\ last.before
    /\ store[last.id].fields # NoFields
    /\ \A i \in Ids : Stored(store, i)

====
